---- MODULE Spec2Model ----
(***************************************************************************)
(* Lexical scopes of the evaluator (src/eval/scope.rs): Slot, Scope and    *)
(* Scopes.  A slot is an Arc<RefCell<Value>>: the model keeps, per cell,   *)
(* the value, the RefCell borrow flag and the Arc strong count.            *)
(***************************************************************************)
EXTENDS Integers, Sequences, FiniteSets

\* ---------------------------------------------------------------- bounds
MaxSlots == 2
MaxDepth == 2
MaxRefs == 2

\* The live handles allowed where two whole scopes are compared.
MaxBindings == 4

Names == {"x", "y"}
\* The names the library scope registers.
LibNames == {"x"}
Values == {1, 2}
Slots == 1..MaxSlots

\* Option::None for a slot handle.
NoSlot == 0

VARIABLES
    phase,    \* "build": no Scopes; "run": a Scopes in use; "ended": a Scopes
              \* past its last use, not yet dropped; "panicked"
    lib,      \* a stand-alone Scope (the library scope handed in as base)
    hasBase,  \* Scopes.base is Some(&lib)
    top,      \* Scopes.top
    scopes,   \* Scopes.scopes
    store,    \* the heap of slot cells: value, borrow flag, strong count
    held,     \* slot handles held outside any scope (captured clones)
    marks,    \* history: the top and scopes seen by each enter() not yet exited
    res,      \* the last operation and its outcome
    other,    \* a second stand-alone Scope
    order,    \* history: per stand-alone scope, its names in order of first insertion
    registered, \* history: the cells created by def_func and def_class
    out,      \* what the last iter, hash or fmt produced
    cloned,   \* a clone of the Scopes exists
    ctop,     \* the clone's top
    cscopes,  \* the clone's scopes
    limit     \* the number of live handles this exploration allows

\* The state of the stand-alone scopes' queries and of the clone.
ext == <<other, order, registered, out, cloned, ctop, cscopes, limit>>

vars == <<phase, lib, hasBase, top, scopes, store, held, marks, res, ext>>

\* ------------------------------------------------------------ slot cells
\* An unallocated (or released) cell.
\* origin and init are history: how the cell was created, and with which
\* value.
FreeCell == [val |-> 0, flag |-> 0, rc |-> 0, origin |-> "none", init |-> 0]

\* Arc::new(RefCell::new(v)): unborrowed, one strong handle.
MutCell(v) == [val |-> v, flag |-> 0, rc |-> 1, origin |-> "mut", init |-> 0]

\* The cell without the leaked borrow: a constant that stays writable.
ConstCellUnlocked(v) ==
    [val |-> v, flag |-> 0, rc |-> 1, origin |-> "const", init |-> v]

\* RefCell::new(v), then std::mem::forget(cell.borrow()): the shared borrow
\* is never released, so the flag stays at one reader for ever.
ConstCell(v) ==
    [val |-> v, flag |-> 1, rc |-> 1, origin |-> "const", init |-> v]

\* The address of a fresh allocation: the lowest cell nobody holds.
Alloc(st) == CHOOSE s \in Slots : st[s].rc = 0 /\ \A t \in Slots : st[t].rc = 0 => s <= t

CanAlloc(st) == \E s \in Slots : st[s].rc = 0

\* The number of live handles, over all cells.
RECURSIVE SumRc(_, _)
SumRc(st, ss) ==
    IF ss = {} THEN 0
    ELSE LET s == CHOOSE k \in ss : TRUE IN st[s].rc + SumRc(st, ss \ {s})

Refs(st) == SumRc(st, Slots)

\* Arc::clone.
CloneHandle(st, s) == [st EXCEPT ![s].rc = @ + 1]

\* A drop that releases the cell whatever the count.
DropHandleEager(st, s) ==
    IF s = NoSlot THEN st ELSE [st EXCEPT ![s] = FreeCell]

\* Drop of one Arc handle; the cell is released with the last one.
DropHandle(st, s) ==
    IF s = NoSlot THEN st
    ELSE IF st[s].rc = 1 THEN [st EXCEPT ![s] = FreeCell]
    ELSE [st EXCEPT ![s].rc = @ - 1]

\* RefCell::try_borrow_mut succeeds only on an unborrowed cell.
CanBorrowMut(st, s) == st[s].flag = 0

\* RefCell::borrow succeeds unless the cell is mutably borrowed.
CanBorrow(st, s) == st[s].flag >= 0

\* ----------------------------------------------------------------- Scope
\* Scope::new: the empty map.
EmptyScope == [n \in Names |-> NoSlot]

\* A lookup that falls back to the library scope.
ScopeGetFallback(m, n) == IF m[n] # NoSlot THEN m[n] ELSE lib[n]

\* Scope::get.
ScopeGet(m, n) == m[n]

\* BTreeMap::insert of a handle under a name.
Insert(m, n, s) == [m EXCEPT ![n] = s]

\* A def_const that reuses the cell already bound under the name: it
\* overwrites and locks the old cell in place.
ScopeDefConstInPlace(m, st, n, v) ==
    IF m[n] # NoSlot
    THEN [scope |-> m,
          store |-> [st EXCEPT ![m[n]].val = v, ![m[n]].flag = 1,
                               ![m[n]].origin = "const", ![m[n]].init = v],
          slot  |-> m[n]]
    ELSE LET s == Alloc(st)
         IN  [scope |-> Insert(m, n, s),
              store |-> [st EXCEPT ![s] = ConstCell(v)],
              slot  |-> s]

\* A def_const whose borrow guard is dropped instead of forgotten.
ScopeDefConstUnlocked(m, st, n, v) ==
    LET s == Alloc(st)
    IN  [scope |-> Insert(m, n, s),
         store |-> DropHandle([st EXCEPT ![s] = ConstCellUnlocked(v)], m[n]),
         slot  |-> s]

\* Scope::def_const: a new locked cell is bound; the handle the map held
\* under that name before (if any) is dropped.
ScopeDefConst(m, st, n, v) ==
    LET s == Alloc(st)
    IN  [scope |-> Insert(m, n, s),
         store |-> DropHandle([st EXCEPT ![s] = ConstCell(v)], m[n]),
         slot  |-> s]

\* Scope::def_mut.
ScopeDefMut(m, st, n, v) ==
    LET s == Alloc(st)
    IN  [scope |-> Insert(m, n, s),
         store |-> DropHandle([st EXCEPT ![s] = MutCell(v)], m[n]),
         slot  |-> s]

\* A def_slot that binds a copy of the cell instead of the cell.
ScopeDefSlotCopy(m, st, n, s) ==
    IF CanAlloc(st)
    THEN LET c == Alloc(st)
         IN  [scope |-> Insert(m, n, c),
              store |-> DropHandle([st EXCEPT ![c] = [st[s] EXCEPT !.rc = 1]], m[n]),
              slot  |-> c]
    ELSE [scope |-> Insert(m, n, s),
          store |-> DropHandle(CloneHandle(st, s), m[n]),
          slot  |-> s]

\* Scope::def_slot: the handle passed in (a clone of a held one) is bound.
ScopeDefSlot(m, st, n, s) ==
    [scope |-> Insert(m, n, s),
     store |-> DropHandle(CloneHandle(st, s), m[n]),
     slot  |-> s]

\* Drop of a whole Scope: every handle of its map is dropped.
RECURSIVE DropNames(_, _, _)
DropNames(m, st, ns) ==
    IF ns = {} THEN st
    ELSE LET n == CHOOSE k \in ns : TRUE
         IN  DropNames(m, DropHandle(st, m[n]), ns \ {n})

DropScope(m, st) == DropNames(m, st, Names)

\* ---------------------------------------------------------------- Scopes
\* self.base as an Option<&Scope>.
Base == IF hasBase THEN <<lib>> ELSE <<>>

RECURSIVE Rev(_)
Rev(s) == IF s = <<>> THEN <<>> ELSE Append(Rev(Tail(s)), Head(s))

\* The same chain with the suspended scopes in push order.
ChainUnreversed(t, ss, b) == <<t>> \o ss \o b

\* The same chain with the base consulted first.
ChainBaseFirst(t, ss, b) == b \o <<t>> \o Rev(ss)

\* iter::once(&self.top).chain(self.scopes.iter().rev()).chain(self.base)
Chain(t, ss, b) == <<t>> \o Rev(ss) \o b

\* A search that keeps the last match of the chain instead of the first.
RECURSIVE FindMapLast(_, _)
FindMapLast(ch, n) ==
    IF ch = <<>> THEN NoSlot
    ELSE LET later == FindMapLast(Tail(ch), n)
         IN  IF later # NoSlot THEN later ELSE ScopeGet(Head(ch), n)

\* find_map(|scope| scope.get(var)): the first scope of the chain that binds.
RECURSIVE FindMap(_, _)
FindMap(ch, n) ==
    IF ch = <<>> THEN NoSlot
    ELSE IF ScopeGet(Head(ch), n) # NoSlot THEN ScopeGet(Head(ch), n)
    ELSE FindMap(Tail(ch), n)

\* Scopes::get.
Get(n) == FindMap(Chain(top, scopes, Base), n)

\* The outcome record of an operation.
Res(op, n, s, v, ok) ==
    [op |-> op, name |-> n, slot |-> s, val |-> v, ok |-> ok, prev |-> NoSlot,
     sc |-> "lib", old |-> {}, gone |-> {}, mark |-> [top |-> EmptyScope, scopes |-> <<>>]]

\* The outcome of a definition: the slot now bound and the one replaced.
DefRes(op, n, r, m) == [Res(op, n, r.slot, 0, TRUE) EXCEPT !.prev = ScopeGet(m, n)]

\* ------------------------------------------------------------------ Init
\* Nothing is defined yet; at most l handles will be alive at a time.
Start(l) ==
    /\ phase = "build"
    /\ lib = EmptyScope
    /\ hasBase = FALSE
    /\ top = EmptyScope
    /\ scopes = <<>>
    /\ store = [s \in Slots |-> FreeCell]
    /\ held = {}
    /\ marks = <<>>
    /\ res = Res("init", "x", NoSlot, 0, TRUE)
    /\ other = EmptyScope
    /\ order = [k \in {"lib", "other"} |-> <<>>]
    /\ registered = {}
    /\ out = [kind |-> "none"]
    /\ cloned = FALSE
    /\ ctop = EmptyScope
    /\ cscopes = <<>>
    /\ limit = l

Init == Start(MaxRefs)

\* The stand-alone scope can be written (&mut) unless a Scopes still in use
\* holds it as its base (&'a Scope): the borrow ends with the last use of
\* the Scopes, which may come before its drop.
LibWritable == phase \in {"build", "ended"} \/ (phase = "run" /\ ~hasBase)

\* Scope::def_const on the stand-alone scope.
LibDefConst(n, v) ==
    /\ LibWritable
    /\ CanAlloc(store)
    /\ LET r == ScopeDefConst(lib, store, n, v)
       IN  /\ lib' = r.scope
           /\ Refs(r.store) <= MaxRefs
           /\ store' = r.store
           /\ res' = DefRes("scope_def_const", n, r, lib)
    /\ UNCHANGED <<phase, hasBase, top, scopes, held, marks>>
    /\ UNCHANGED ext

\* Scope::def_mut on the stand-alone scope.
LibDefMut(n, v) ==
    /\ LibWritable
    /\ CanAlloc(store)
    /\ LET r == ScopeDefMut(lib, store, n, v)
       IN  /\ lib' = r.scope
           /\ Refs(r.store) <= MaxRefs
           /\ store' = r.store
           /\ res' = DefRes("scope_def_mut", n, r, lib)
    /\ UNCHANGED <<phase, hasBase, top, scopes, held, marks>>
    /\ UNCHANGED ext

\* Scope::def_slot on the stand-alone scope, with a clone of a held handle.
LibDefSlot(n, s) ==
    /\ LibWritable
    /\ s \in held
    /\ LET r == ScopeDefSlot(lib, store, n, s)
       IN  /\ lib' = r.scope
           /\ Refs(r.store) <= MaxRefs
           /\ store' = r.store
           /\ res' = DefRes("scope_def_slot", n, r, lib)
    /\ UNCHANGED <<phase, hasBase, top, scopes, held, marks>>
    /\ UNCHANGED ext

\* Scope::get on the stand-alone scope.
LibGet(n) ==
    /\ phase \in {"build", "run", "ended"}
    /\ res' = Res("scope_get", n, ScopeGet(lib, n), 0, TRUE)
    /\ UNCHANGED <<phase, lib, hasBase, top, scopes, store, held, marks>>
    /\ UNCHANGED ext

\* Scopes::new(base).
New(b) ==
    /\ phase = "build"
    /\ phase' = "run"
    /\ hasBase' = b
    /\ top' = EmptyScope
    /\ scopes' = <<>>
    /\ res' = Res("new", "x", NoSlot, 0, TRUE)
    /\ UNCHANGED <<lib, store, held, marks>>
    /\ UNCHANGED ext

\* An enter that puts the suspended scope at the bottom of the stack.
EnterFront ==
    /\ phase = "run"
    /\ Len(scopes) < MaxDepth
    /\ scopes' = <<top>> \o scopes
    /\ top' = EmptyScope
    /\ marks' = Append(marks, [top |-> top, scopes |-> scopes])
    /\ res' = Res("enter", "x", NoSlot, 0, TRUE)
    /\ UNCHANGED <<phase, lib, hasBase, store, held>>
    /\ UNCHANGED ext

\* Scopes::enter: push mem::take(&mut self.top), which leaves an empty top.
Enter ==
    /\ phase = "run"
    /\ Len(scopes) < MaxDepth
    /\ scopes' = Append(scopes, top)
    /\ top' = EmptyScope
    /\ marks' = Append(marks, [top |-> top, scopes |-> scopes])
    /\ res' = Res("enter", "x", NoSlot, 0, TRUE)
    /\ UNCHANGED <<phase, lib, hasBase, store, held>>
    /\ UNCHANGED ext

\* Vec::pop from the wrong end: the least recently pushed element.
PopFront(ss) ==
    IF Len(ss) = 0 THEN [some |-> FALSE, item |-> EmptyScope, rest |-> ss]
    ELSE [some |-> TRUE, item |-> ss[1], rest |-> SubSeq(ss, 2, Len(ss))]

\* A pop that hands back the last element and leaves it in the vector.
PopKeep(ss) ==
    IF Len(ss) = 0 THEN [some |-> FALSE, item |-> EmptyScope, rest |-> ss]
    ELSE [some |-> TRUE, item |-> ss[Len(ss)], rest |-> ss]

\* Vec::pop: None on an empty vector, else the last element, removed.
Pop(ss) ==
    IF Len(ss) = 0 THEN [some |-> FALSE, item |-> EmptyScope, rest |-> ss]
    ELSE [some |-> TRUE, item |-> ss[Len(ss)], rest |-> SubSeq(ss, 1, Len(ss) - 1)]

\* unwrap_or_default in place of expect: None is taken as an empty scope.
ExpectLenient(o) == TRUE

\* Option::expect: goes on with the item of Some, panics on None.
Expect(o) == o.some

\* Scopes::exit: self.top = self.scopes.pop().expect("no pushed scope").
\* The old top is dropped by the assignment; on None the expect panics
\* before anything is assigned.
Exit ==
    /\ phase = "run"
    /\ LET o == Pop(scopes)
       IN  IF Expect(o)
           THEN /\ top' = o.item
                /\ scopes' = o.rest
                /\ store' = DropScope(top, store)
                /\ marks' = SubSeq(marks, 1, Len(marks) - 1)
                /\ res' = [Res("exit", "x", NoSlot, 0, TRUE) EXCEPT
                              !.old = {n \in Names : ScopeGet(top, n) # NoSlot},
                              !.gone = {ScopeGet(top, n) : n \in Names} \ {NoSlot},
                              !.mark = IF Len(marks) > 0 THEN marks[Len(marks)] ELSE @]
                /\ UNCHANGED phase
           ELSE /\ phase' = "panicked"
                /\ res' = Res("exit", "x", NoSlot, 0, FALSE)
                /\ UNCHANGED <<top, scopes, store, marks>>
    /\ UNCHANGED <<lib, hasBase, held>>
    /\ UNCHANGED ext

\* The last use of the Scopes has passed: it keeps its scopes and their
\* cells until it is dropped, but its borrow of the base is over.
LastUse ==
    /\ phase = "run"
    /\ phase' = "ended"
    /\ res' = Res("last_use", "x", NoSlot, 0, TRUE)
    /\ UNCHANGED <<lib, hasBase, top, scopes, store, held, marks>>
    /\ UNCHANGED ext

RECURSIVE DropVec(_, _)
\* Drop of a Vec<Scope>: each scope of it is dropped.
DropVec(ss, st) ==
    IF ss = <<>> THEN st ELSE DropVec(Tail(ss), DropScope(Head(ss), st))

\* The Scopes goes out of scope: its top and its suspended scopes are
\* dropped; no borrow of the base is left.
DropScopes ==
    /\ phase \in {"run", "ended"}
    /\ phase' = "build"
    /\ hasBase' = FALSE
    /\ top' = EmptyScope
    /\ scopes' = <<>>
    /\ marks' = <<>>
    /\ store' = DropVec(scopes, DropScope(top, store))
    /\ res' = Res("drop_scopes", "x", NoSlot, 0, TRUE)
    /\ UNCHANGED <<lib, held>>
    /\ UNCHANGED ext

\* Scopes::def_const: self.top.def_const(var, value).
DefConst(n, v) ==
    /\ phase = "run"
    /\ CanAlloc(store)
    /\ LET r == ScopeDefConst(top, store, n, v)
       IN  /\ top' = r.scope
           /\ Refs(r.store) <= MaxRefs
           /\ store' = r.store
           /\ res' = DefRes("def_const", n, r, top)
    /\ UNCHANGED <<phase, lib, hasBase, scopes, held, marks>>
    /\ UNCHANGED ext

\* A def_mut that rebinds the name in the enclosing scope when that scope
\* already binds it.
DefMutOuter(n, v) ==
    /\ phase = "run"
    /\ CanAlloc(store)
    /\ LET k == Len(scopes)
           outer == k > 0 /\ scopes[k][n] # NoSlot
           r == ScopeDefMut(IF outer THEN scopes[k] ELSE top, store, n, v)
       IN  /\ Refs(r.store) <= MaxRefs
           /\ top' = (IF outer THEN top ELSE r.scope)
           /\ scopes' = (IF outer THEN [scopes EXCEPT ![k] = r.scope] ELSE scopes)
           /\ store' = r.store
           /\ res' = DefRes("def_mut", n, r, top)
    /\ UNCHANGED <<phase, lib, hasBase, held, marks>>
    /\ UNCHANGED ext

\* Scopes::def_mut: self.top.def_mut(var, value).
DefMut(n, v) ==
    /\ phase = "run"
    /\ CanAlloc(store)
    /\ LET r == ScopeDefMut(top, store, n, v)
       IN  /\ top' = r.scope
           /\ Refs(r.store) <= MaxRefs
           /\ store' = r.store
           /\ res' = DefRes("def_mut", n, r, top)
    /\ UNCHANGED <<phase, lib, hasBase, scopes, held, marks>>
    /\ UNCHANGED ext

\* Scopes::def_slot: self.top.def_slot(var, slot), with a clone of a held
\* handle.
DefSlot(n, s) ==
    /\ phase = "run"
    /\ s \in held
    /\ LET r == ScopeDefSlot(top, store, n, s)
       IN  /\ top' = r.scope
           /\ Refs(r.store) <= MaxRefs
           /\ store' = r.store
           /\ res' = DefRes("def_slot", n, r, top)
    /\ UNCHANGED <<phase, lib, hasBase, scopes, held, marks>>
    /\ UNCHANGED ext

\* Scopes::get.
Lookup(n) ==
    /\ phase = "run"
    /\ res' = Res("get", n, Get(n), 0, TRUE)
    /\ UNCHANGED <<phase, lib, hasBase, top, scopes, store, held, marks>>
    /\ UNCHANGED ext

\* The handle a lookup has just returned (an Option<&Slot>).
Found == IF res.op \in {"get", "scope_get"} /\ res.slot # NoSlot THEN {res.slot} ELSE {}

\* The handles through which cells are read and written: clones of what
\* lookups returned.
Handles == held

\* slot.clone() of a handle just looked up: a capture that outlives scopes.
Capture ==
    /\ phase \in {"build", "run", "ended"}
    /\ \E s \in Found :
        /\ s \notin held
        /\ Refs(store) < MaxRefs
        /\ held' = held \cup {s}
        /\ store' = CloneHandle(store, s)
        /\ res' = Res("clone", "x", NoSlot, 0, TRUE)
    /\ UNCHANGED <<phase, lib, hasBase, top, scopes, marks>>
    /\ UNCHANGED ext

\* Drop of a captured handle.
DropHeld(s) ==
    /\ phase \in {"build", "run", "ended"}
    /\ s \in held
    /\ held' = held \ {s}
    /\ store' = DropHandle(store, s)
    /\ res' = Res("drop", "x", NoSlot, 0, TRUE)
    /\ UNCHANGED <<phase, lib, hasBase, top, scopes, marks>>
    /\ UNCHANGED ext

\* A read through a handle: slot.borrow(), which panics on a cell that is
\* mutably borrowed.
Read(s) ==
    /\ phase \in {"build", "run", "ended"}
    /\ s \in Handles
    /\ IF CanBorrow(store, s)
       THEN /\ res' = Res("read", "x", s, store[s].val, TRUE)
            /\ UNCHANGED phase
       ELSE /\ res' = Res("read", "x", s, 0, FALSE)
            /\ phase' = "panicked"
    /\ UNCHANGED <<lib, hasBase, top, scopes, store, held, marks>>
    /\ UNCHANGED ext

\* A write attempt through a handle: slot.try_borrow_mut(), assign through
\* the guard, drop the guard; an Err leaves the cell as it is.
Write(s, v) ==
    /\ phase \in {"build", "run", "ended"}
    /\ s \in Handles
    /\ IF CanBorrowMut(store, s)
       THEN /\ store' = [store EXCEPT ![s].val = v]
            /\ res' = Res("write", "x", s, v, TRUE)
       ELSE /\ store' = store
            /\ res' = Res("write", "x", s, 0, FALSE)
    /\ UNCHANGED <<phase, lib, hasBase, top, scopes, held, marks>>
    /\ UNCHANGED ext

Next ==
    \/ \E n \in LibNames, v \in Values : LibDefConst(n, v)
    \/ \E n \in LibNames, v \in Values : LibDefMut(n, v)
    \/ \E n \in LibNames, s \in Slots : LibDefSlot(n, s)
    \/ \E n \in LibNames : LibGet(n)
    \/ \E b \in BOOLEAN : New(b)
    \/ Enter
    \/ Exit
    \/ LastUse
    \/ DropScopes
    \/ \E n \in Names, v \in Values : DefConst(n, v)
    \/ \E n \in Names, v \in Values : DefMut(n, v)
    \/ \E n \in Names, s \in Slots : DefSlot(n, s)
    \/ \E n \in Names : Lookup(n)
    \/ Capture
    \/ \E s \in Slots : DropHeld(s)
    \/ \E s \in Slots : Read(s)
    \/ \E s \in Slots, v \in Values : Write(s, v)

Spec == Init /\ [][Next]_vars

\* ------------------------------------------------- stand-alone scopes
\* Two Scope values used on their own: definitions, aliasing between them,
\* reads and writes through their lookups, iteration, hashing and printing.
Scs == {"lib", "other"}

Sc(k) == IF k = "lib" THEN lib ELSE other

\* The scope k becomes m; the other one stays.
SetSc(k, m) ==
    IF k = "lib" THEN lib' = m /\ other' = other ELSE other' = m /\ lib' = lib

\* The history of first insertions, after an insert of n into scope k.
Inserted(k, n) ==
    IF Sc(k)[n] = NoSlot THEN [order EXCEPT ![k] = Append(@, n)] ELSE order

\* No output: the last operation returned none.
NoOut == [kind |-> "none"]

Live(st) == {s \in Slots : st[s].rc > 0}

\* What the stand-alone scopes' operations never touch.
stackVars == <<hasBase, top, scopes, marks, cloned, ctop, cscopes, limit>>

\* Func::native(name, func) as a Value; f stands for the function given.
FuncValue(n, f) == f

\* Class::new::<T>(name) as a Value; c stands for the type given.
ClassValue(n, c) == c

\* A def_func that registers the function as a mutable variable.
ScopeDefFuncMut(m, st, n, f) == ScopeDefMut(m, st, n, FuncValue(n, f))

\* Scope::def_func: self.def_const(name, Func::native(name, func)).
ScopeDefFunc(m, st, n, f) == ScopeDefConst(m, st, n, FuncValue(n, f))

\* Scope::def_class: self.def_const(name, Class::new::<T>(name)).
ScopeDefClass(m, st, n, c) == ScopeDefConst(m, st, n, ClassValue(n, c))

\* The effect of a definition's result r on scope k.
Defined(k, n, r, op) ==
    /\ Refs(r.store) <= limit
    /\ SetSc(k, r.scope)
    /\ store' = r.store
    /\ order' = Inserted(k, n)
    /\ res' = [DefRes(op, n, r, Sc(k)) EXCEPT !.sc = k]

\* Scope::def_const on a stand-alone scope.
SDefConst(k, n, v) ==
    /\ phase = "build"
    /\ CanAlloc(store)
    /\ LET r == ScopeDefConst(Sc(k), store, n, v)
       IN  /\ Defined(k, n, r, "sdef_const")
           /\ registered' = registered \cap Live(r.store)
    /\ out' = NoOut
    /\ UNCHANGED <<phase, held>>
    /\ UNCHANGED stackVars

\* Scope::def_mut on a stand-alone scope.
SDefMut(k, n, v) ==
    /\ phase = "build"
    /\ CanAlloc(store)
    /\ LET r == ScopeDefMut(Sc(k), store, n, v)
       IN  /\ Defined(k, n, r, "sdef_mut")
           /\ registered' = registered \cap Live(r.store)
    /\ out' = NoOut
    /\ UNCHANGED <<phase, held>>
    /\ UNCHANGED stackVars

\* Scope::def_func on a stand-alone scope.
SDefFunc(k, n, f) ==
    /\ phase = "build"
    /\ CanAlloc(store)
    /\ LET r == ScopeDefFunc(Sc(k), store, n, f)
       IN  /\ Defined(k, n, r, "sdef_func")
           /\ registered' = (registered \cap Live(r.store)) \cup {r.slot}
    /\ out' = NoOut
    /\ UNCHANGED <<phase, held>>
    /\ UNCHANGED stackVars

\* Scope::def_class on a stand-alone scope.
SDefClass(k, n, c) ==
    /\ phase = "build"
    /\ CanAlloc(store)
    /\ LET r == ScopeDefClass(Sc(k), store, n, c)
       IN  /\ Defined(k, n, r, "sdef_class")
           /\ registered' = (registered \cap Live(r.store)) \cup {r.slot}
    /\ out' = NoOut
    /\ UNCHANGED <<phase, held>>
    /\ UNCHANGED stackVars

\* to.def_slot(m, from.get(n).unwrap().clone()): the binding n of scope k
\* is re-exposed as m in scope j.
SAlias(k, n, j, m) ==
    /\ phase = "build"
    /\ ScopeGet(Sc(k), n) # NoSlot
    /\ LET r == ScopeDefSlot(Sc(j), store, m, ScopeGet(Sc(k), n))
       IN  /\ Refs(r.store) <= limit
           /\ SetSc(j, r.scope)
           /\ store' = r.store
           /\ order' = Inserted(j, m)
           /\ registered' = registered \cap Live(r.store)
           /\ res' = [DefRes("sdef_slot", m, r, Sc(j)) EXCEPT !.sc = j]
    /\ out' = NoOut
    /\ UNCHANGED <<phase, held>>
    /\ UNCHANGED stackVars

\* A write attempt through the handle that scope k's lookup of n returns.
SWrite(k, n, v) ==
    /\ phase = "build"
    /\ ScopeGet(Sc(k), n) # NoSlot
    /\ LET s == ScopeGet(Sc(k), n)
       IN  IF CanBorrowMut(store, s)
           THEN /\ store' = [store EXCEPT ![s].val = v]
                /\ res' = [Res("swrite", n, s, v, TRUE) EXCEPT !.sc = k]
           ELSE /\ store' = store
                /\ res' = [Res("swrite", n, s, 0, FALSE) EXCEPT !.sc = k]
    /\ out' = NoOut
    /\ UNCHANGED <<phase, lib, other, order, registered, held>>
    /\ UNCHANGED stackVars

\* A read through the handle that scope k's lookup of n returns.
SRead(k, n) ==
    /\ phase = "build"
    /\ ScopeGet(Sc(k), n) # NoSlot
    /\ LET s == ScopeGet(Sc(k), n)
       IN  IF CanBorrow(store, s)
           THEN /\ res' = [Res("sread", n, s, store[s].val, TRUE) EXCEPT !.sc = k]
                /\ UNCHANGED phase
           ELSE /\ res' = [Res("sread", n, s, 0, FALSE) EXCEPT !.sc = k]
                /\ phase' = "panicked"
    /\ out' = NoOut
    /\ UNCHANGED <<lib, other, order, registered, store, held>>
    /\ UNCHANGED stackVars

\* A clone of the handle is write-borrowed and the guard is kept:
\* scope.get(n).unwrap().clone(), then try_borrow_mut on the clone.
SBorrowMut(k, n) ==
    /\ phase = "build"
    /\ ScopeGet(Sc(k), n) # NoSlot
    /\ LET s == ScopeGet(Sc(k), n)
       IN  /\ s \notin held
           /\ Refs(store) < limit
           /\ IF CanBorrowMut(store, s)
              THEN /\ store' = [CloneHandle(store, s) EXCEPT ![s].flag = -1]
                   /\ held' = held \cup {s}
                   /\ res' = [Res("sborrow", n, s, 0, TRUE) EXCEPT !.sc = k]
              ELSE /\ UNCHANGED <<store, held>>
                   /\ res' = [Res("sborrow", n, s, 0, FALSE) EXCEPT !.sc = k]
    /\ out' = NoOut
    /\ UNCHANGED <<phase, lib, other, order, registered>>
    /\ UNCHANGED stackVars

\* The write guard and the cloned handle are dropped.
SRelease(s) ==
    /\ phase = "build"
    /\ s \in held
    /\ store[s].flag = -1
    /\ store' = DropHandle([store EXCEPT ![s].flag = 0], s)
    /\ held' = held \ {s}
    /\ registered' = registered \cap Live(store')
    /\ res' = Res("srelease", "x", s, 0, TRUE)
    /\ out' = NoOut
    /\ UNCHANGED <<phase, lib, other, order>>
    /\ UNCHANGED stackVars

\* The order of EcoString keys in the BTreeMap: "x" < "y".
Rank(n) == IF n = "x" THEN 1 ELSE 2

RECURSIVE Ascending(_)
\* The names of S in ascending key order.
Ascending(S) ==
    IF S = {} THEN <<>>
    ELSE LET n == CHOOSE a \in S : \A b \in S : Rank(a) <= Rank(b)
         IN  <<n>> \o Ascending(S \ {n})

RECURSIVE Descending(_)
Descending(S) ==
    IF S = {} THEN <<>>
    ELSE LET n == CHOOSE a \in S : \A b \in S : Rank(a) >= Rank(b)
         IN  <<n>> \o Descending(S \ {n})

\* An iteration that walks the map from its greatest key downwards.
IterDescending(m) ==
    LET ks == Descending({n \in Names : m[n] # NoSlot})
    IN  [i \in 1..Len(ks) |-> <<ks[i], m[ks[i]]>>]

\* Scope::iter: self.values.iter(), the (name, slot) entries of the
\* BTreeMap in key order.
Iter(m) ==
    LET ks == Ascending({n \in Names : m[n] # NoSlot})
    IN  [i \in 1..Len(ks) |-> <<ks[i], m[ks[i]]>>]

\* RefCell::borrow: one more reader.
Borrow(st, s) == [st EXCEPT ![s].flag = @ + 1]

\* A read guard that is never given back.
DropBorrowLeaked(st, s) == st

\* The Ref guard is dropped: one reader fewer.
DropBorrow(st, s) == [st EXCEPT ![s].flag = @ - 1]

RECURSIVE Visit(_, _, _)
\* The loop of Hash::hash and of Debug::fmt over the entries es: each value
\* is borrowed, emitted after its name, and the guard is dropped before the
\* next entry.  A value that is write-borrowed makes borrow() panic.
Visit(es, st, acc) ==
    IF es = <<>> THEN [ok |-> TRUE, items |-> acc, store |-> st]
    ELSE LET n == Head(es)[1]
             s == Head(es)[2]
         IN  IF CanBorrow(st, s)
             THEN LET b == Borrow(st, s)
                  IN  Visit(Tail(es), DropBorrow(b, s), Append(acc, <<n, b[s].val>>))
             ELSE [ok |-> FALSE, items |-> acc, store |-> st]

\* A hash that feeds the slots' identities to the hasher, not their values.
HashInputSlots(m, st) ==
    [ok    |-> Visit(Iter(m), st, <<>>).ok,
     len   |-> Len(Iter(m)),
     items |-> Iter(m),
     store |-> Visit(Iter(m), st, <<>>).store]

\* impl Hash for Scope: what is written to the hasher, values.len() and
\* then each name and borrowed value.
HashInput(m, st) ==
    [ok    |-> Visit(Iter(m), st, <<>>).ok,
     len   |-> Len(Iter(m)),
     items |-> Visit(Iter(m), st, <<>>).items,
     store |-> Visit(Iter(m), st, <<>>).store]

\* impl Debug for Scope: "Scope " and then a map of each name to its
\* borrowed value.
DebugOutput(m, st) ==
    [ok    |-> Visit(Iter(m), st, <<>>).ok,
     head  |-> "Scope ",
     items |-> Visit(Iter(m), st, <<>>).items,
     store |-> Visit(Iter(m), st, <<>>).store]

\* for (name, slot) in scope.iter() { .. }
SIter(k) ==
    /\ phase = "build"
    /\ out' = [kind |-> "iter", sc |-> k, items |-> Iter(Sc(k))]
    /\ res' = [Res("iter", "x", NoSlot, 0, TRUE) EXCEPT !.sc = k]
    /\ UNCHANGED <<phase, lib, other, order, registered, store, held>>
    /\ UNCHANGED stackVars

\* scope.hash(&mut state)
SHash(k) ==
    /\ phase = "build"
    /\ LET h == HashInput(Sc(k), store)
       IN  /\ store' = h.store
           /\ res' = [Res("hash", "x", NoSlot, 0, h.ok) EXCEPT !.sc = k]
           /\ IF h.ok
              THEN /\ out' = [kind |-> "hash", sc |-> k, len |-> h.len, items |-> h.items]
                   /\ UNCHANGED phase
              ELSE /\ out' = NoOut
                   /\ phase' = "panicked"
    /\ UNCHANGED <<lib, other, order, registered, held>>
    /\ UNCHANGED stackVars

\* format!("{:?}", scope)
SFmt(k) ==
    /\ phase = "build"
    /\ LET d == DebugOutput(Sc(k), store)
       IN  /\ store' = d.store
           /\ res' = [Res("fmt", "x", NoSlot, 0, d.ok) EXCEPT !.sc = k]
           /\ IF d.ok
              THEN /\ out' = [kind |-> "fmt", sc |-> k, head |-> d.head, items |-> d.items]
                   /\ UNCHANGED phase
              ELSE /\ out' = NoOut
                   /\ phase' = "panicked"
    /\ UNCHANGED <<lib, other, order, registered, held>>
    /\ UNCHANGED stackVars

SNext ==
    \/ \E k \in Scs, n \in Names, v \in Values : SDefConst(k, n, v)
    \/ \E k \in Scs, n \in Names, v \in Values : SDefMut(k, n, v)
    \/ \E k \in Scs, n \in Names, f \in Values : SDefFunc(k, n, f)
    \/ \E k \in Scs, n \in Names, c \in Values : SDefClass(k, n, c)
    \/ \E k \in Scs, n \in Names, j \in Scs, m \in Names : SAlias(k, n, j, m)
    \/ \E k \in Scs, n \in Names, v \in Values : SWrite(k, n, v)
    \/ \E k \in Scs, n \in Names : SRead(k, n)
    \/ \E k \in Scs, n \in Names : SBorrowMut(k, n)
    \/ \E s \in Slots : SRelease(s)
    \/ \E k \in Scs : SIter(k)
    \/ \E k \in Scs : SHash(k)
    \/ \E k \in Scs : SFmt(k)

SpecScope == Init /\ [][SNext]_vars

\* Two scopes built side by side and hashed, with room for both to bind
\* every name.
InitWide == Start(MaxBindings)

HNext ==
    \/ \E k \in Scs, n \in Names, v \in Values : SDefConst(k, n, v)
    \/ \E k \in Scs, n \in Names, v \in Values : SDefMut(k, n, v)
    \/ \E k \in Scs, n \in Names, j \in Scs, m \in Names : SAlias(k, n, j, m)
    \/ \E k \in Scs, n \in Names, v \in Values : SWrite(k, n, v)
    \/ \E k \in Scs : SHash(k)

SpecHash == InitWide /\ [][HNext]_vars

\* ---------------------------------------------------------------- clone
\* #[derive(Clone)] on Scope and Scopes: the maps are copied, each Arc
\* handle in them is cloned, the base reference is copied.
RECURSIVE DeepNames(_, _, _)
DeepNames(m, st, ns) ==
    IF ns = {} THEN [scope |-> m, store |-> st]
    ELSE LET n == CHOOSE k \in ns : TRUE
         IN  IF m[n] = NoSlot THEN DeepNames(m, st, ns \ {n})
             ELSE IF CanAlloc(st)
             THEN DeepNames([m EXCEPT ![n] = Alloc(st)],
                            [st EXCEPT ![Alloc(st)] = [st[m[n]] EXCEPT !.rc = 1]],
                            ns \ {n})
             ELSE DeepNames(m, CloneHandle(st, m[n]), ns \ {n})

\* A clone that copies the cells along with the map.
ScopeCloneDeep(m, st) == DeepNames(m, st, Names)

RECURSIVE CloneNames(_, _, _)
\* Arc::clone of the handle of every name in ns.
CloneNames(m, st, ns) ==
    IF ns = {} THEN st
    ELSE LET n == CHOOSE k \in ns : TRUE
         IN  IF m[n] = NoSlot THEN CloneNames(m, st, ns \ {n})
             ELSE CloneNames(m, CloneHandle(st, m[n]), ns \ {n})

\* Scope::clone: the same map, one more handle on every cell it binds.
ScopeClone(m, st) == [scope |-> m, store |-> CloneNames(m, st, Names)]

RECURSIVE VecClone(_, _)
\* Vec<Scope>::clone: each scope is cloned in turn.
VecClone(ss, st) ==
    IF ss = <<>> THEN [scopes |-> <<>>, store |-> st]
    ELSE LET c == ScopeClone(Head(ss), st)
             r == VecClone(Tail(ss), c.store)
         IN  [scopes |-> <<c.scope>> \o r.scopes, store |-> r.store]

\* Scopes::get on the clone.
CGet(n) == FindMap(Chain(ctop, cscopes, Base), n)

\* let copy = scopes.clone()
CloneScopes ==
    /\ phase = "run"
    /\ ~cloned
    /\ LET t == ScopeClone(top, store)
           r == VecClone(scopes, t.store)
       IN  /\ Refs(r.store) <= limit
           /\ ctop' = t.scope
           /\ cscopes' = r.scopes
           /\ store' = r.store
    /\ cloned' = TRUE
    /\ res' = Res("clone", "x", NoSlot, 0, TRUE)
    /\ UNCHANGED <<phase, lib, hasBase, top, scopes, held, marks>>
    /\ UNCHANGED <<other, order, registered, out, limit>>

\* copy.def_const(var, value)
CDefConst(n, v) ==
    /\ phase = "run"
    /\ cloned
    /\ CanAlloc(store)
    /\ LET r == ScopeDefConst(ctop, store, n, v)
       IN  /\ Refs(r.store) <= limit
           /\ ctop' = r.scope
           /\ store' = r.store
           /\ res' = DefRes("cdef_const", n, r, ctop)
    /\ UNCHANGED <<phase, lib, hasBase, top, scopes, held, marks>>
    /\ UNCHANGED <<other, order, registered, out, limit, cloned, cscopes>>

\* copy.def_mut(var, value)
CDefMut(n, v) ==
    /\ phase = "run"
    /\ cloned
    /\ CanAlloc(store)
    /\ LET r == ScopeDefMut(ctop, store, n, v)
       IN  /\ Refs(r.store) <= limit
           /\ ctop' = r.scope
           /\ store' = r.store
           /\ res' = DefRes("cdef_mut", n, r, ctop)
    /\ UNCHANGED <<phase, lib, hasBase, top, scopes, held, marks>>
    /\ UNCHANGED <<other, order, registered, out, limit, cloned, cscopes>>

\* copy.enter()
CEnter ==
    /\ phase = "run"
    /\ cloned
    /\ Len(cscopes) < MaxDepth
    /\ cscopes' = Append(cscopes, ctop)
    /\ ctop' = EmptyScope
    /\ res' = Res("center", "x", NoSlot, 0, TRUE)
    /\ UNCHANGED <<phase, lib, hasBase, top, scopes, store, held, marks>>
    /\ UNCHANGED <<other, order, registered, out, limit, cloned>>

\* copy.exit()
CExit ==
    /\ phase = "run"
    /\ cloned
    /\ LET o == Pop(cscopes)
       IN  IF Expect(o)
           THEN /\ ctop' = o.item
                /\ cscopes' = o.rest
                /\ store' = DropScope(ctop, store)
                /\ res' = Res("cexit", "x", NoSlot, 0, TRUE)
                /\ UNCHANGED phase
           ELSE /\ phase' = "panicked"
                /\ res' = Res("cexit", "x", NoSlot, 0, FALSE)
                /\ UNCHANGED <<ctop, cscopes, store>>
    /\ UNCHANGED <<lib, hasBase, top, scopes, held, marks>>
    /\ UNCHANGED <<other, order, registered, out, limit, cloned>>

\* A write attempt through the handle that a lookup of n returns, in the
\* original (w = "orig") or in the clone (w = "clone").
WriteVia(w, n, v) ==
    /\ phase = "run"
    /\ cloned
    /\ LET s == IF w = "orig" THEN Get(n) ELSE CGet(n)
       IN  /\ s # NoSlot
           /\ IF CanBorrowMut(store, s)
              THEN /\ store' = [store EXCEPT ![s].val = v]
                   /\ res' = [Res("write_via", n, s, v, TRUE) EXCEPT !.sc = w]
              ELSE /\ store' = store
                   /\ res' = [Res("write_via", n, s, 0, FALSE) EXCEPT !.sc = w]
    /\ UNCHANGED <<phase, lib, hasBase, top, scopes, held, marks>>
    /\ UNCHANGED ext

CNext ==
    \/ \E b \in BOOLEAN : New(b)
    \/ \E n \in Names, v \in Values : DefConst(n, v)
    \/ \E n \in Names, v \in Values : DefMut(n, v)
    \/ Enter
    \/ Exit
    \/ CloneScopes
    \/ \E n \in Names, v \in Values : CDefConst(n, v)
    \/ \E n \in Names, v \in Values : CDefMut(n, v)
    \/ CEnter
    \/ CExit
    \/ \E w \in {"orig", "clone"}, n \in Names, v \in Values : WriteVia(w, n, v)

SpecClone == Init /\ [][CNext]_vars

\* ---------------------------------------------------------------- claims
DefOps == {"def_const", "def_mut", "def_slot"}
ScopeDefOps == {"scope_def_const", "scope_def_mut", "scope_def_slot"}

\* C1: a slot created by def_const rejects every write attempt through any
\* handle, also after it was re-exposed with def_slot and after its defining
\* scope was exited; every read of it succeeds and gives the value it was
\* created with.
ConstLockInvariant ==
    /\ \A s \in Slots : store[s].origin = "const" =>
          /\ ~CanBorrowMut(store, s)
          /\ CanBorrow(store, s)
          /\ store[s].val = store[s].init
    /\ (res.op = "write" /\ store[res.slot].origin = "const") => ~res.ok
    /\ (res.op = "read" /\ store[res.slot].origin = "const") =>
          (res.ok /\ res.val = store[res.slot].init)

\* A write through a captured handle was refused on a constant that the
\* outermost scope binds under the name y, and the cell still holds the
\* value it was created with.
ConstLockWitness ==
    /\ res.op = "write" /\ ~res.ok
    /\ store[res.slot].origin = "const"
    /\ res.slot \in held
    /\ Len(scopes) = 0
    /\ ScopeGet(top, "y") = res.slot
    /\ ScopeGet(top, "x") = NoSlot
    /\ store[res.slot].val = store[res.slot].init

\* The scopes that bind n, innermost first, by their place: 0 is the active
\* scope, i the i-th suspended scope, -1 the base.
Binds(m, n) == m[n] # NoSlot
SuspendedBinding(n) == {i \in 1..Len(scopes) : Binds(scopes[i], n)}
Nearest(n) == CHOOSE i \in SuspendedBinding(n) : \A j \in SuspendedBinding(n) : j <= i
Resolved(n) ==
    IF Binds(top, n) THEN top[n]
    ELSE IF SuspendedBinding(n) # {} THEN scopes[Nearest(n)][n]
    ELSE IF hasBase THEN lib[n]
    ELSE NoSlot

\* C2: Scopes::get returns the first match in the order active scope, then
\* suspended scopes from the most recently suspended to the least, then the
\* base if present; it is absent exactly when no scope of these binds the name.
LookupOrder ==
    /\ \A n \in Names :
          /\ Get(n) = Resolved(n)
          /\ Get(n) = NoSlot <=>
                (/\ ~Binds(top, n)
                 /\ SuspendedBinding(n) = {}
                 /\ ~(hasBase /\ Binds(lib, n)))
    /\ res.op = "get" => res.slot = Resolved(res.name)

\* A lookup went past an active scope without the name and took the more
\* recently suspended of two suspended scopes that bind it differently.
LookupOrderWitness ==
    /\ res.op = "get"
    /\ ~Binds(top, res.name)
    /\ Len(scopes) = 2
    /\ Binds(scopes[1], res.name) /\ Binds(scopes[2], res.name)
    /\ scopes[1][res.name] # scopes[2][res.name]
    /\ res.slot = scopes[2][res.name]

\* Every slot bound in some scope is a live cell.
BoundAlive ==
    \A n \in Names :
        /\ Binds(top, n) => store[top[n]].rc > 0
        /\ Binds(lib, n) => store[lib[n]].rc > 0
        /\ \A i \in 1..Len(scopes) : Binds(scopes[i], n) => store[scopes[i][n]].rc > 0

\* C3: while an inner scope that defines x is active, lookup(x) gives the
\* inner slot; after the matching exit lookup(x) gives the slot the outer
\* scope bound before the enter, still alive; and no enter, exit, definition
\* or lookup changes the content of a cell that stays alive.
Shadowing ==
    /\ [](/\ \A n \in Names :
                (Len(scopes) > 0 /\ Binds(top, n)) => Get(n) = top[n]
          /\ (res.op = "exit" /\ res.ok) =>
                \A n \in Names : Binds(res.mark.top, n) =>
                    (Get(n) = res.mark.top[n] /\ store[Get(n)].rc > 0)
          /\ BoundAlive)
    /\ [][res'.op \in DefOps \cup {"enter", "exit", "get"} =>
            \A s \in Slots : (store[s].rc > 0 /\ store'[s].rc > 0) =>
                /\ store'[s].val = store[s].val
                /\ store'[s].flag = store[s].flag
                /\ store'[s].origin = store[s].origin]_vars

\* An inner scope that redefined x was exited and x resolves to the outer
\* slot again.
ShadowingWitness ==
    /\ res.op = "exit" /\ res.ok
    /\ "x" \in res.old
    /\ Binds(res.mark.top, "x")
    /\ Get("x") = res.mark.top["x"]

\* C4: an exit gives back the active scope, the bindings and the suspended
\* stack that the matching enter saw, whatever was defined in between.
BalancedEnterExit ==
    (res.op = "exit" /\ res.ok) =>
        /\ top = res.mark.top
        /\ scopes = res.mark.scopes

\* The inner of two nested scopes, with definitions of its own, was exited
\* back into a scope that has bindings.
BalancedEnterExitWitness ==
    /\ res.op = "exit" /\ res.ok
    /\ res.old # {}
    /\ Len(scopes) = 1
    /\ top # EmptyScope

\* C5: exit panics exactly when no scope is suspended and otherwise removes
\* one suspended scope; enter never fails.
UnbalancedExit ==
    [][/\ res'.op = "exit" =>
            IF Len(scopes) = 0
            THEN phase' = "panicked" /\ ~res'.ok
            ELSE /\ phase' = "run" /\ res'.ok
                 /\ Len(scopes') = Len(scopes) - 1
       /\ res'.op = "enter" =>
            /\ phase' = "run" /\ res'.ok
            /\ Len(scopes') = Len(scopes) + 1]_vars

\* An exit with nothing suspended has panicked.
UnbalancedExitWitness ==
    /\ res.op = "exit" /\ ~res.ok
    /\ phase = "panicked"
    /\ Len(scopes) = 0

\* C6: def_const, def_mut and def_slot of Scopes change the map of the
\* active scope only, and there only the name defined: suspended scopes,
\* the base and the depth of the stack stay as they are.
DefinitionFrame ==
    [][res'.op \in DefOps =>
        /\ scopes' = scopes
        /\ lib' = lib
        /\ hasBase' = hasBase
        /\ Len(scopes') = Len(scopes)
        /\ \A k \in Names \ {res'.name} : top'[k] = top[k]]_vars

\* A name that the enclosing suspended scope binds was defined in the
\* active scope.
DefinitionFrameWitness ==
    /\ res.op \in DefOps
    /\ Len(scopes) >= 1
    /\ Binds(scopes[Len(scopes)], res.name)
    /\ Binds(top, res.name)

\* The place in the chain where find_map stops for n (1 is the active scope).
RECURSIVE FoundAt(_, _, _)
FoundAt(ch, n, i) ==
    IF ch = <<>> THEN 0
    ELSE IF ScopeGet(Head(ch), n) # NoSlot THEN i
    ELSE FoundAt(Tail(ch), n, i + 1)

LocallyBound(n) == Binds(top, n) \/ SuspendedBinding(n) # {}

\* C7: a name bound in the base resolves to the base slot while no active
\* or suspended scope defines it, resolves to the local binding (found before
\* the base is reached) while one does, and resolves to the base slot again
\* once the defining scope was exited.
BaseFallback ==
    \A n \in Names : (phase # "build" /\ hasBase /\ Binds(lib, n)) =>
        /\ ~LocallyBound(n) => Get(n) = lib[n]
        /\ LocallyBound(n) =>
              /\ Get(n) = (IF Binds(top, n) THEN top[n] ELSE scopes[Nearest(n)][n])
              /\ FoundAt(Chain(top, scopes, Base), n, 1) <= Len(scopes) + 1

\* A scope that shadowed the base binding of x was exited, and x resolves
\* to the base slot.
BaseFallbackWitness ==
    /\ res.op = "exit" /\ res.ok
    /\ hasBase /\ Binds(lib, "x")
    /\ "x" \in res.old
    /\ ~LocallyBound("x")
    /\ Get("x") = lib["x"]

\* C8: a definition under a name the scope already binds replaces the
\* binding; def_const and def_mut bind a new cell; the old cell is neither
\* written nor locked, and it lives on, with its value and its borrow flag,
\* as long as another handle holds it.
Redefinition ==
    [][(res'.op \in DefOps \cup ScopeDefOps /\ res'.prev # NoSlot) =>
        LET old == res'.prev
            n == res'.name
            before == IF res'.op \in DefOps THEN top ELSE lib
            after == IF res'.op \in DefOps THEN top' ELSE lib'
        IN  /\ ScopeGet(before, n) = old
            /\ ScopeGet(after, n) = res'.slot
            /\ res'.op \notin {"def_slot", "scope_def_slot"} =>
                  (res'.slot # old /\ store[res'.slot].rc = 0)
            /\ (res'.slot # old /\ store[old].rc > 1) =>
                  store'[old] = [store[old] EXCEPT !.rc = @ - 1]
            /\ res'.slot = old =>
                  store'[old] = store[old]]_vars

\* A mutable binding was redefined by def_const while a captured handle
\* holds the old cell, which is still writable.
RedefinitionWitness ==
    /\ res.op = "def_const"
    /\ res.prev # NoSlot /\ res.prev # res.slot
    /\ res.prev \in held
    /\ store[res.prev].origin = "mut"
    /\ CanBorrowMut(store, res.prev)
    /\ store[res.slot].origin = "const"

\* C9: a write attempt on a constant slot fails, changes neither the cell
\* nor any binding, and does not end the process.
WriteToConstant ==
    [][(res'.op = "write" /\ store[res'.slot].origin = "const") =>
        /\ ~res'.ok
        /\ phase' = phase
        /\ UNCHANGED <<store, top, scopes, lib, hasBase, held>>]_vars

\* A write to a constant that a lookup still resolves was refused, and the
\* evaluation goes on.
WriteToConstantWitness ==
    /\ res.op = "write" /\ ~res.ok
    /\ phase = "run"
    /\ store[res.slot].origin = "const"
    /\ \E n \in Names : Get(n) = res.slot

\* C10: Scope::get looks at the scope's own map only: a new scope binds
\* nothing; a name becomes present in a scope only by a definition of that
\* name in that scope, and is present right after one; a definition in one
\* scope changes no other scope's bindings.
ScopeLocalLookup ==
    /\ [](/\ res.op \in {"init", "new", "enter"} =>
                \A n \in Names : ScopeGet(top, n) = NoSlot
          /\ res.op = "init" => \A n \in Names : ScopeGet(lib, n) = NoSlot)
    /\ [][/\ res'.op \in DefOps =>
                /\ ScopeGet(top', res'.name) = res'.slot
                /\ res'.slot # NoSlot
                /\ \A k \in Names \ {res'.name} : ScopeGet(top', k) = ScopeGet(top, k)
                /\ \A k \in Names : ScopeGet(lib', k) = ScopeGet(lib, k)
                /\ scopes' = scopes
          /\ res'.op \in ScopeDefOps =>
                /\ ScopeGet(lib', res'.name) = res'.slot
                /\ res'.slot # NoSlot
                /\ \A k \in Names \ {res'.name} : ScopeGet(lib', k) = ScopeGet(lib, k)
                /\ \A k \in Names : ScopeGet(top', k) = ScopeGet(top, k)
                /\ scopes' = scopes
          /\ \A n \in Names :
                /\ (ScopeGet(lib, n) = NoSlot /\ ScopeGet(lib', n) # NoSlot) =>
                      (res'.op \in ScopeDefOps /\ res'.name = n)
                /\ (ScopeGet(top, n) = NoSlot /\ ScopeGet(top', n) # NoSlot) =>
                      \/ res'.op \in DefOps /\ res'.name = n
                      \/ res'.op = "exit"
                /\ \A i \in 1..Len(scopes) : i <= Len(scopes') =>
                      ScopeGet(scopes'[i], n) = ScopeGet(scopes[i], n)]_vars

\* The name y, bound neither by the suspended scope below nor by the base
\* (which binds x), was defined in the active scope for the first time.
ScopeLocalLookupWitness ==
    /\ res.op = "def_mut" /\ res.name = "y" /\ res.prev = NoSlot
    /\ Len(scopes) >= 1
    /\ ScopeGet(scopes[1], "y") = NoSlot
    /\ hasBase /\ ScopeGet(lib, "x") # NoSlot /\ ScopeGet(lib, "y") = NoSlot
    /\ ScopeGet(top, "y") = res.slot /\ res.slot # NoSlot

\* The number of handles to s that a scope's map holds.
BindCount(m, s) == Cardinality({n \in Names : m[n] = s})

RECURSIVE StackCount(_, _)
StackCount(ss, s) ==
    IF ss = <<>> THEN 0 ELSE BindCount(Head(ss), s) + StackCount(Tail(ss), s)

\* The holders of a cell: the bindings of every scope and the captured handle.
Holders(s) ==
    BindCount(top, s) + StackCount(scopes, s) + BindCount(lib, s)
        + (IF s \in held THEN 1 ELSE 0)

\* C12: a cell is alive exactly while some scope or captured handle holds
\* it; exit drops the discarded scope's handles, so a cell also held elsewhere
\* lives on with its value and borrow flag, and a cell held only by the
\* discarded scope is released.
SlotLifetime ==
    /\ [](\A s \in Slots :
            /\ store[s].rc = Holders(s)
            /\ Holders(s) = 0 => store[s] = FreeCell
            /\ Holders(s) > 0 => store[s].origin \in {"const", "mut"})
    /\ [][(res'.op = "exit" /\ res'.ok) =>
            \A s \in Slots :
                LET k == BindCount(top, s)
                IN  /\ store[s].rc > k => store'[s] = [store[s] EXCEPT !.rc = @ - k]
                    /\ (k > 0 /\ store[s].rc = k) => store'[s] = FreeCell]_vars

\* A scope was exited whose binding is also captured: the cell lives on,
\* held by the captured handle alone, and is still writable.
SlotLifetimeWitness ==
    /\ res.op = "exit" /\ res.ok
    /\ \E s \in res.gone :
          /\ s \in held
          /\ store[s].rc = 1
          /\ store[s].origin = "mut"
          /\ CanBorrowMut(store, s)
          /\ \A n \in Names : Get(n) # s

\* C16: right after enter the active scope is empty, the scope that was
\* active is the last of the suspended stack, and every name resolves as it
\* did before.
EnterPreservesResolution ==
    [][res'.op = "enter" =>
        /\ top' = EmptyScope
        /\ Len(scopes') = Len(scopes) + 1
        /\ scopes'[Len(scopes')] = top
        /\ \A n \in Names : Get(n)' = Get(n)]_vars

\* A second scope was entered over two scopes that bind x to different
\* slots; x still resolves to the nearer one.
EnterPreservesResolutionWitness ==
    /\ res.op = "enter"
    /\ Len(scopes) = 2
    /\ Binds(scopes[1], "x") /\ Binds(scopes[2], "x")
    /\ scopes[1]["x"] # scopes[2]["x"]
    /\ top = EmptyScope
    /\ Get("x") = scopes[2]["x"]

\* C17: the number of suspended scopes is the number of enters not yet
\* exited; enter and exit move the active scope only, never the base, which
\* stays the one given to new, with its bindings, for as long as the Scopes
\* is in use; a failed exit changes nothing of the stack.
StackDepth ==
    /\ [](Len(scopes) = Len(marks) /\ Len(scopes) >= 0)
    /\ [][/\ (phase = "run" /\ phase' = "run") =>
                (hasBase' = hasBase /\ (hasBase => lib' = lib))
          /\ res'.op = "enter" => scopes' = Append(scopes, top)
          /\ (res'.op = "exit" /\ res'.ok) =>
                /\ Len(scopes) > 0
                /\ scopes' = SubSeq(scopes, 1, Len(scopes) - 1)
                /\ top' = scopes[Len(scopes)]
          /\ (res'.op = "exit" /\ ~res'.ok) =>
                /\ Len(scopes) = 0
                /\ UNCHANGED <<top, scopes, store, marks>>]_vars

\* With a base given, two scopes were entered and one exited: one scope
\* is suspended.
StackDepthWitness ==
    /\ res.op = "exit" /\ res.ok
    /\ hasBase /\ Binds(lib, "x")
    /\ Len(scopes) = 1 /\ Len(marks) = 1
    /\ top = EmptyScope
\* The stand-alone scope k after the step.
ScAfter(k) == IF k = "lib" THEN lib' ELSE other'

\* The slots that scope m binds.
Bound(m) == {m[n] : n \in Names} \ {NoSlot}

\* The names that scope m binds.
BoundNames(m) == {n \in Names : m[n] # NoSlot}

\* C11: a mutable slot re-exposed with def_slot is one storage cell.  The
\* def_slot step binds the very cell that the source name is bound to, with
\* its value, borrow flag and origin untouched and no new cell allocated; a
\* read returns the cell's value and changes nothing; and after a successful
\* write through one name, every name bound to that cell, in either scope,
\* looks up a cell holding the written value.
MutableAliasing ==
    /\ [](res.op = "swrite" /\ res.ok =>
            \A k \in Scs, n \in Names :
                ScopeGet(Sc(k), n) = res.slot =>
                    store[ScopeGet(Sc(k), n)].val = res.val)
    /\ [][res'.op = "sdef_slot" =>
            /\ \E k \in Scs, n \in Names : ScopeGet(Sc(k), n) = res'.slot
            /\ ScopeGet(ScAfter(res'.sc), res'.name) = res'.slot
            /\ store'[res'.slot].val = store[res'.slot].val
            /\ store'[res'.slot].flag = store[res'.slot].flag
            /\ store'[res'.slot].origin = store[res'.slot].origin
            /\ Live(store') \subseteq Live(store)]_vars
    /\ [][res'.op = "sread" /\ res'.ok =>
            /\ res'.val = store[res'.slot].val
            /\ store' = store]_vars

\* A write through lib changed a mutable cell that other binds as well.
MutableAliasingWitness ==
    /\ res.op = "swrite" /\ res.ok /\ res.sc = "lib"
    /\ store[res.slot].origin = "mut"
    /\ res.val # store[res.slot].init
    /\ \E m \in Names : ScopeGet(other, m) = res.slot /\ m # res.name

\* C13: iteration yields every current binding of the scope exactly once,
\* with the slot it is bound to, in ascending order of name, whatever the
\* order in which the names were defined.
Enumeration ==
    out.kind = "iter" =>
        LET it == out.items
            m  == Sc(out.sc)
        IN  /\ \A n \in BoundNames(m) :
                  Cardinality({i \in DOMAIN it : it[i] = <<n, m[n]>>}) = 1
            /\ Len(it) = Cardinality(BoundNames(m))
            /\ \A i, j \in DOMAIN it : i < j => Rank(it[i][1]) < Rank(it[j][1])

\* A scope whose names were defined in descending order has been iterated.
EnumerationWitness ==
    /\ out.kind = "iter"
    /\ Len(out.items) = 2
    /\ order[out.sc] = <<"y", "x">>

\* C15: a binding made by def_func or def_class is a constant binding: the
\* step binds the name to a fresh cell that is exactly the cell def_const
\* makes for that value, such a cell is never writable, and every write or
\* write borrow attempted on it through any name fails and changes nothing.
RegistrationSugars ==
    /\ [](\A s \in registered : ~CanBorrowMut(store, s) /\ store[s].flag >= 1)
    /\ [][res'.op \in {"sdef_func", "sdef_class"} =>
            /\ ScopeGet(ScAfter(res'.sc), res'.name) = res'.slot
            /\ store[res'.slot] = FreeCell
            /\ store'[res'.slot] = ConstCell(store'[res'.slot].val)]_vars
    /\ [][res'.op \in {"swrite", "sborrow"} /\ res'.slot \in registered =>
            ~res'.ok /\ store' = store]_vars

\* A write was attempted on a registered function or class that is bound
\* twice, and failed.
RegistrationSugarsWitness ==
    /\ res.op = "swrite" /\ ~res.ok
    /\ res.slot \in registered
    /\ store[res.slot].rc = 2

\* C19: hashing or printing a scope succeeds exactly when none of the slots
\* it binds is write-borrowed, so always when it binds constants only, and
\* panics otherwise; on success it emits one entry per binding; and in
\* either case every cell is afterwards as it was before: same value, same
\* borrow flag, same strong count.
BorrowDiscipline ==
    [][res'.op \in {"hash", "fmt"} =>
        LET B == Bound(Sc(res'.sc))
        IN  /\ res'.ok <=> \A s \in B : store[s].flag >= 0
            /\ (\A s \in B : store[s].origin = "const") => res'.ok
            /\ res'.ok => /\ out'.kind = res'.op
                          /\ Len(out'.items) = Cardinality(BoundNames(Sc(res'.sc)))
                          /\ \A i \in DOMAIN out'.items :
                                out'.items[i][2] = store[Sc(res'.sc)[out'.items[i][1]]].val
                          /\ phase' = phase
            /\ ~res'.ok => phase' = "panicked"
            /\ store' = store]_vars

\* A scope was hashed or printed while one of its slots was write-borrowed
\* through a cloned handle.
BorrowDisciplineWitness ==
    /\ res.op \in {"hash", "fmt"} /\ ~res.ok
    /\ phase = "panicked"
    /\ \E s \in Bound(Sc(res.sc)) : s \in held /\ store[s].flag = -1

\* The (name, current value) pairs of scope m.
Pairs(m, st) == {<<n, st[m[n]].val>> : n \in BoundNames(m)}

\* C14: what a scope feeds to the hasher is a function of its (name,
\* current value) pairs alone: two scopes with the same pairs feed the same
\* input, whatever the insertion order, the cells' identities and their
\* being constant or mutable, and the input a hash step produced is the
\* input of every scope with the same pairs; and a successful write that
\* changes a cell's value changes the input of every scope that binds it.
HashDeterminism ==
    /\ [](Pairs(lib, store) = Pairs(other, store) =>
            /\ HashInput(lib, store).ok /\ HashInput(other, store).ok
            /\ HashInput(lib, store).len = HashInput(other, store).len
            /\ HashInput(lib, store).items = HashInput(other, store).items)
    /\ [](out.kind = "hash" =>
            \A k \in Scs :
                Pairs(Sc(k), store) = Pairs(Sc(out.sc), store) =>
                    /\ out.len = HashInput(Sc(k), store).len
                    /\ out.items = HashInput(Sc(k), store).items)
    /\ [][res'.op = "swrite" /\ res'.ok /\ store[res'.slot].val # res'.val =>
            \A k \in Scs :
                res'.slot \in Bound(Sc(k)) =>
                    HashInput(Sc(k), store').items # HashInput(Sc(k), store).items]_vars

\* A scope was hashed while the other one had the same pairs, built in the
\* opposite order, with "x" a constant in one and, in the other, a written
\* mutable cell that the first one binds under another name.
HashDeterminismWitness ==
    /\ out.kind = "hash"
    /\ Pairs(lib, store) = Pairs(other, store)
    /\ order["lib"] = <<"x", "y">>
    /\ order["other"] = <<"y", "x">>
    /\ lib["x"] # other["x"]
    /\ store[lib["x"]].origin = "const"
    /\ store[other["x"]].origin = "mut"
    /\ store[other["x"]].val # store[other["x"]].init
    /\ other["x"] \in Bound(lib)

\* How many times the original binds slot s.
OrigCount(s) == BindCount(top, s) + StackCount(scopes, s)

\* C18: a clone copies the maps and shares the cells.  The clone step
\* yields the original's top and stack, allocates nothing, and only raises
\* each cell's strong count by the number of the original's bindings of
\* it; after a successful write through either one, every name that
\* resolves to the written cell, in the original and in the clone, finds
\* the written value; a write to a constant cell fails through either; and
\* a definition, enter or exit on the clone leaves the original's top and
\* stack, and the value and borrow flag of every cell the original binds,
\* as they were.
ShallowClone ==
    /\ [][res'.op = "clone" =>
            /\ ctop' = top /\ cscopes' = scopes
            /\ top' = top /\ scopes' = scopes
            /\ \A s \in Slots :
                  store'[s] = [store[s] EXCEPT !.rc = @ + OrigCount(s)]]_vars
    /\ [](res.op = "write_via" /\ res.ok =>
            \A n \in Names :
                /\ Get(n) = res.slot => store[Get(n)].val = res.val
                /\ CGet(n) = res.slot => store[CGet(n)].val = res.val)
    /\ [][res'.op = "write_via" /\ store[res'.slot].origin = "const" =>
            ~res'.ok /\ store' = store]_vars
    /\ [][res'.op \in {"cdef_const", "cdef_mut", "center", "cexit"} =>
            /\ top' = top /\ scopes' = scopes
            /\ \A s \in Slots :
                  OrigCount(s) > 0 =>
                      /\ store'[s].val = store[s].val
                      /\ store'[s].flag = store[s].flag]_vars

\* After the clone went its own way (it entered a scope or redefined a
\* name), a write through it changed a cell that the original resolves
\* under the same name.
ShallowCloneWitness ==
    /\ res.op = "write_via" /\ res.ok /\ res.sc = "clone"
    /\ Get(res.name) = res.slot
    /\ res.val # store[res.slot].init
    /\ (Len(cscopes) # Len(scopes) \/ ctop # top)

====
